---- MODULE Spec2Model ----
(***************************************************************************)
(* Model of the MoxField EDHREC combo userscript                           *)
(* (src/moxfield_edhrec_combo.js; src/unnamed/part_000 is the same code).  *)
(*                                                                         *)
(* Strings are sequences of one-character strings, so that the regular     *)
(* expressions of the script are computed character by character.          *)
(***************************************************************************)
EXTENDS Integers, Sequences, FiniteSets, TLC

VARIABLES
    input,      \* normalizer harness: the string given to formatCardName
    output,     \* normalizer harness: what formatCardName returned
    now,        \* Date.now(), in hours
    cache,      \* TTLCache.cache: the Map, a function on the keys it holds
    ret,        \* cache harness: what the last TTLCache.get returned
    lastOp,     \* cache harness: the last TTLCache operation and the one before
    dom,        \* the host page
    panels,     \* the elements with id moxfield-combo-display, in document order
    inflight,   \* the fetchCombo runs suspended at await fetch(url): how many,
                \* by card name, by whether the cache entry of the name is
                \* still as the run left it (history), and by whether the
                \* most recently started run is for another card (history)
    watch,      \* the timers and the observer of init and setupAsideObserver
    reqCount,   \* history: HTTP requests issued so far, by card name
    done,       \* history: how the last finished request ended, by card name
    ev          \* history: what the last step did

normVars == <<input, output>>
harnessVars == <<ret, lastOp>>
scriptVars == <<dom, panels, inflight, watch, reqCount, done, ev>>
vars == <<input, output, now, cache, ret, lastOp,
          dom, panels, inflight, watch, reqCount, done, ev>>

(***************************************************************************)
(* Bounds                                                                  *)
(***************************************************************************)
MaxLen == 4
\* hours the clock runs for
MaxTime == 2
\* HTTP requests issued in one behaviour
MaxRequests == 2

(***************************************************************************)
(* Characters                                                              *)
(***************************************************************************)
Upper == <<"A","B","C","D","E","F","G","H","I","J","K","L","M",
           "N","O","P","Q","R","S","T","U","V","W","X","Y","Z">>
Lower == <<"a","b","c","d","e","f","g","h","i","j","k","l","m",
           "n","o","p","q","r","s","t","u","v","w","x","y","z">>
Digits == <<"0","1","2","3","4","5","6","7","8","9">>

\* the class \s of the script's regular expressions, and what trim() removes
IsSpace(c) == c \in {" ", "\t", "\n", "\r"}
\* the class a-z
IsLowerLetter(c) == \E i \in 1..26 : Lower[i] = c
\* the class 0-9
IsDigit(c) == \E i \in 1..10 : Digits[i] = c

\* String.prototype.toLowerCase, one character
LowerChar(c) == IF \E i \in 1..26 : Upper[i] = c
                THEN Lower[CHOOSE i \in 1..26 : Upper[i] = c]
                ELSE c

\* String.prototype.toLowerCase
toLowerCase(s) == [i \in 1..Len(s) |-> LowerChar(s[i])]

\* replace(/[^a-z0-9\s]/g, '')
RECURSIVE StripOther(_)
StripOther(s) ==
    IF s = <<>> THEN <<>>
    ELSE IF IsLowerLetter(Head(s)) \/ IsDigit(Head(s)) \/ IsSpace(Head(s))
         THEN <<Head(s)>> \o StripOther(Tail(s))
         ELSE StripOther(Tail(s))

RECURSIVE TrimStart(_)
TrimStart(s) ==
    IF s # <<>> /\ IsSpace(Head(s)) THEN TrimStart(Tail(s)) ELSE s

RECURSIVE TrimEnd(_)
TrimEnd(s) ==
    IF s # <<>> /\ IsSpace(s[Len(s)]) THEN TrimEnd(SubSeq(s, 1, Len(s) - 1)) ELSE s

\* String.prototype.trim
trim(s) == TrimEnd(TrimStart(s))

\* replace(/\s+/g, '-'): every maximal run of whitespace becomes one hyphen
RECURSIVE DashSpaces(_)
DashSpaces(s) ==
    IF s = <<>> THEN <<>>
    ELSE IF IsSpace(Head(s))
         THEN <<"-">> \o DashSpaces(TrimStart(s))
         ELSE <<Head(s)>> \o DashSpaces(Tail(s))

\* a formatCardName that forgets trim()
formatCardNameNoTrim(cardName) ==
    DashSpaces(StripOther(toLowerCase(cardName)))

\* a formatCardName whose first replace keeps only the hyphen out of the strip
RECURSIVE StripOtherKeepDash(_)
StripOtherKeepDash(s) ==
    IF s = <<>> THEN <<>>
    ELSE IF IsLowerLetter(Head(s)) \/ IsDigit(Head(s)) \/ IsSpace(Head(s)) \/ Head(s) = "-"
         THEN <<Head(s)>> \o StripOtherKeepDash(Tail(s))
         ELSE StripOtherKeepDash(Tail(s))

formatCardNameKeepDash(cardName) ==
    DashSpaces(trim(StripOtherKeepDash(toLowerCase(cardName))))

\* formatCardName(cardName)
formatCardName(cardName) ==
    DashSpaces(trim(StripOther(toLowerCase(cardName))))

(***************************************************************************)
(* JavaScript values                                                       *)
(***************************************************************************)
Null == [t |-> "null"]
Undefined == [t |-> "undefined"]
Str(s) == [t |-> "string", s |-> s]
Arr(items) == [t |-> "array", items |-> items]

\* ToBoolean: null, undefined and "" are falsy, every array is truthy
Truthy(v) ==
    /\ v.t \notin {"null", "undefined"}
    /\ ~(v.t = "string" /\ v.s = <<>>)

(***************************************************************************)
(* TTLCache                                                                *)
(***************************************************************************)
\* constructor(ttlHours = 1)
ttlHours == 1
\* this.ttl = ttlHours * 60 * 60 * 1000 milliseconds, in hours
ttl == ttlHours

\* new Map()
EmptyMap == <<>>

\* Map.prototype.set
MapSet(m, key, item) ==
    [k \in DOMAIN m \cup {key} |-> IF k = key THEN item ELSE m[k]]

\* Map.prototype.delete
MapDelete(m, key) == [k \in DOMAIN m \ {key} |-> m[k]]

\* a get that also expires the entry whose age equals the ttl
CacheGetEager(m, key, t) ==
    IF key \notin DOMAIN m THEN [value |-> Null, map |-> m]
    ELSE IF t - m[key].timestamp >= ttl
         THEN [value |-> Null, map |-> MapDelete(m, key)]
         ELSE [value |-> m[key].value, map |-> m]

\* TTLCache.get(key) at time t: the value returned and the Map afterwards
CacheGet(m, key, t) ==
    IF key \notin DOMAIN m THEN [value |-> Null, map |-> m]
    ELSE IF t - m[key].timestamp > ttl
         THEN [value |-> Null, map |-> MapDelete(m, key)]
         ELSE [value |-> m[key].value, map |-> m]

\* TTLCache.set(key, value) at time t: the Map afterwards
CacheSet(m, key, value, t) ==
    MapSet(m, key, [value |-> value, timestamp |-> t])

\* the card names of the model: "A b" and "C-d"
NameAB == <<"A", " ", "b">>
NameCd == <<"C", "-", "d">>
RawNames == {NameAB, NameCd}

(***************************************************************************)
(* The host page                                                           *)
(***************************************************************************)
\* the text "/card-", the prefix of the pattern /\/card-([^-]+)-/
CardPrefix == <<"/", "c", "a", "r", "d", "-">>

\* length of the longest prefix of s without a hyphen: what [^-]+ takes
RECURSIVE NoDashRun(_)
NoDashRun(s) ==
    IF s = <<>> \/ Head(s) = "-" THEN 0 ELSE 1 + NoDashRun(Tail(s))

\* does /\/card-([^-]+)-/ match src at position i
MatchesAt(src, i) ==
    /\ i + 5 <= Len(src)
    /\ SubSeq(src, i, i + 5) = CardPrefix
    /\ LET rest == SubSeq(src, i + 6, Len(src))
       IN  /\ NoDashRun(rest) >= 1
           /\ NoDashRun(rest) < Len(rest)

\* extractDataHashFromImageSrc(src): match[1] of the leftmost match, or null
extractDataHashFromImageSrc(src) ==
    IF \E i \in 1..Len(src) : MatchesAt(src, i)
    THEN LET i == CHOOSE j \in 1..Len(src) :
                      MatchesAt(src, j) /\ \A k \in 1..(j - 1) : ~MatchesAt(src, k)
             rest == SubSeq(src, i + 6, Len(src))
         IN  Str(SubSeq(rest, 1, NoDashRun(rest)))
    ELSE Null

\* element.textContent?.trim() || '' of an element that was found
TrimmedText(el) ==
    IF Truthy(Str(trim(el.s))) THEN trim(el.s) ELSE <<>>

\* a findCardNameByHash that reads the table-row link first
findCardNameByHashLinkFirst(d, hash) ==
    IF hash \in DOMAIN d.rows
    THEN LET element == d.rows[hash]
             byLink == IF Truthy(element.link) THEN TrimmedText(element.link) ELSE <<>>
             cardName == IF ~Truthy(Str(byLink))
                         THEN IF Truthy(element.phantom) THEN TrimmedText(element.phantom) ELSE <<>>
                         ELSE byLink
         IN  IF Truthy(Str(cardName)) THEN Str(cardName) ELSE Null
    ELSE Null

\* findCardNameByHash(hash) on the page d
findCardNameByHash(d, hash) ==
    IF hash \in DOMAIN d.rows
    THEN LET element == d.rows[hash]
             byPhantom == IF Truthy(element.phantom) THEN TrimmedText(element.phantom) ELSE <<>>
             cardName == IF ~Truthy(Str(byPhantom))
                         THEN IF Truthy(element.link) THEN TrimmedText(element.link) ELSE <<>>
                         ELSE byPhantom
         IN  IF Truthy(Str(cardName)) THEN Str(cardName) ELSE Null
    ELSE Null

\* getCurrentDisplayCardName() on the page d
getCurrentDisplayCardName(d) ==
    IF Truthy(d.img) /\ Truthy(Str(d.img.src))
    THEN LET dataHash == extractDataHashFromImageSrc(d.img.src)
         IN  IF Truthy(dataHash) THEN findCardNameByHash(d, dataHash.s) ELSE Null
    ELSE Null

\* an <img class="deckview-image img-card"> with that src
Img(src) == [t |-> "element", src |-> src]
\* an element with that textContent
Text(s) == [t |-> "element", s |-> s]
\* the element [data-hash=...]: its .decklist-card-phantomsearch and its
\* a.table-deck-row-link, each an element or null
Row(phantom, link) == [phantom |-> phantom, link |-> link]

HashAB == <<"k", "7">>
HashCd == <<"x">>
SrcAB == <<"s", "/", "c", "a", "r", "d", "-", "k", "7", "-", "n", "?", "2">>
SrcCd == <<"/", "c", "a", "r", "d", "-", "-", "/", "c", "a", "r", "d", "-", "x", "-", "-">>
SrcNoHash == <<"/", "c", "a", "r", "d", "-", "k", "7">>
SrcOther == <<"/", "c", "a", "r", "d", "-", "q", "-">>

RowsOfDeck ==
    [h \in {HashAB, HashCd} |->
        IF h = HashAB
        THEN Row(Text(<<" ", "A", " ", "b", "\n">>), Text(<<"z">>))
        ELSE Row(Text(<<" ">>), Text(<<"C", "-", "d", " ">>))]

\* a page: the preview image, the rows carrying a data-hash, the render
\* anchor aside.deckview-image-container.is-owner, and the watched
\* div.deckview-image-wrapper
Page(img, rows, aside, wrapper) ==
    [img |-> img, rows |-> rows, aside |-> aside, wrapper |-> wrapper]

Pages ==
    { Page(Img(SrcAB), RowsOfDeck, TRUE, TRUE),
      Page(Img(SrcCd), RowsOfDeck, TRUE, TRUE),
      Page(Img(SrcNoHash), RowsOfDeck, FALSE, FALSE) }

(***************************************************************************)
(* The remote API                                                          *)
(***************************************************************************)
\* one entry of cardlists: header, href, cardviews and combo?.results, each
\* possibly undefined
Group(header, href, cardviews, results) ==
    [header |-> header, href |-> href, cardviews |-> cardviews, results |-> results]

CardView(sanitized) == [sanitized |-> Str(sanitized)]

SlugAB == <<"a", "-", "b">>
SlugCd == <<"c", "d">>

\* header contains "A b", no cardviews, no combo
GroupByHeader ==
    Group(Str(<<"z", "A", " ", "b", "!">>), Str(<<"/", "1">>), Undefined, Undefined)
\* cardviews holds a-b
GroupByView ==
    Group(Str(<<"A", "b">>), Str(<<"/", "2">>),
          Arr(<<CardView(<<"q">>), CardView(SlugAB)>>), Arr(<<"r1", "r2">>))
\* cardviews holds cd
GroupOfCd ==
    Group(Str(<<"c", "d">>), Str(<<"/", "3">>), Arr(<<CardView(SlugCd)>>), Arr(<<"r3">>))
\* no header; cardviews holds a-b
GroupNoHeader ==
    Group(Undefined, Str(<<"/", "4">>), Arr(<<CardView(SlugAB)>>), Arr(<<>>))

\* data.container?.json_dict?.cardlists of a parsed body
Body(cardlists) == [cardlists |-> cardlists]

Bodies ==
    { Body(Undefined),
      Body(Arr(<<GroupByView, GroupOfCd, GroupByHeader>>)),
      Body(Arr(<<GroupOfCd>>)),
      Body(Arr(<<GroupNoHeader>>)) }

\* what the request ends with: a 403, another non-2xx status, fetch()
\* rejecting, response.json() rejecting, or a success with a parsed body
Response(kind, body) == [kind |-> kind, body |-> body]

Responses ==
    {Response(k, Body(Undefined)) : k \in {"403", "status", "network", "parse"}}
        \cup {Response("ok", b) : b \in Bodies}

(***************************************************************************)
(* fetchComboData                                                          *)
(***************************************************************************)
\* String.prototype.includes: part occurs in s
Includes(s, part) ==
    \E i \in 1..(Len(s) - Len(part) + 1) : SubSeq(s, i, i + Len(part) - 1) = part

\* combo.cardviews && combo.cardviews.some(cardview => cardview.sanitized === formattedName)
SomeCardView(combo, formattedName) ==
    /\ Truthy(combo.cardviews)
    /\ \E i \in 1..Len(combo.cardviews.items) :
          combo.cardviews.items[i].sanitized = Str(formattedName)

\* the filter callback throws: combo.header.includes on an undefined header
CallbackThrows(combo, cardName, formattedName) ==
    /\ ~SomeCardView(combo, formattedName)
    /\ combo.header = Undefined

\* a filter callback that asks for both the card view and the header
KeepsComboBoth(combo, cardName, formattedName) ==
    /\ SomeCardView(combo, formattedName)
    /\ combo.header # Undefined
    /\ Includes(combo.header.s, cardName)

\* the filter callback, when it does not throw
KeepsCombo(combo, cardName, formattedName) ==
    \/ SomeCardView(combo, formattedName)
    \/ Includes(combo.header.s, cardName)

\* the map callback
ProjectCombo(combo) ==
    [header |-> combo.header,
     href |-> combo.href,
     results |-> IF Truthy(combo.results) THEN combo.results ELSE Arr(<<>>)]

\* combos.filter(...).map(...), when no callback throws
RECURSIVE FilterCombos(_, _, _)
FilterCombos(combos, cardName, formattedName) ==
    IF combos = <<>> THEN <<>>
    ELSE IF KeepsCombo(Head(combos), cardName, formattedName)
         THEN <<ProjectCombo(Head(combos))>> \o FilterCombos(Tail(combos), cardName, formattedName)
         ELSE FilterCombos(Tail(combos), cardName, formattedName)

\* data.container?.json_dict?.cardlists || []
CardlistsOf(body) ==
    IF Truthy(body.cardlists) THEN body.cardlists.items ELSE <<>>

\* what a call leaves behind: the value it resolves to, the Map afterwards,
\* and whether it called cache.set
Outcome(value, map, wrote) ==
    [value |-> value, map |-> map, wrote |-> wrote]

\* a lookup that never looks at the age of the entry
LookupNoExpiry(m, cardName, t) ==
    IF cardName \in DOMAIN m
    THEN [hit |-> Truthy(m[cardName].value), value |-> m[cardName].value, map |-> m]
    ELSE [hit |-> FALSE, value |-> Null, map |-> m]

\* fetchComboData up to the request: cachedData = cache.get(cardName);
\* if (cachedData) return cachedData
Lookup(m, cardName, t) ==
    LET got == CacheGet(m, cardName, t)
    IN  [hit |-> Truthy(got.value), value |-> got.value, map |-> got.map]

\* a continuation that caches null on every failure
ResumeCachesFailures(m, cardName, response, t) ==
    LET formattedName == formatCardName(cardName)
        combos == CardlistsOf(response.body)
        filteredCombos == FilterCombos(combos, cardName, formattedName)
        result == IF Len(filteredCombos) > 0 THEN Arr(filteredCombos) ELSE Null
    IN  IF response.kind = "ok"
           /\ \A i \in 1..Len(combos) : ~CallbackThrows(combos[i], cardName, formattedName)
        THEN Outcome(result, CacheSet(m, cardName, result, t), TRUE)
        ELSE Outcome(Null, CacheSet(m, cardName, Null, t), TRUE)

\* a continuation that caches the filtered array as it is
ResumeCachesEmpty(m, cardName, response, t) ==
    LET formattedName == formatCardName(cardName)
        combos == CardlistsOf(response.body)
        filteredCombos == FilterCombos(combos, cardName, formattedName)
    IN  IF response.kind = "network" \/ response.kind = "parse"
        THEN Outcome(Null, m, FALSE)
        ELSE IF response.kind = "403"
        THEN Outcome(Null, CacheSet(m, cardName, Null, t), TRUE)
        ELSE IF response.kind = "status"
        THEN Outcome(Null, m, FALSE)
        ELSE IF \E i \in 1..Len(combos) : CallbackThrows(combos[i], cardName, formattedName)
        THEN Outcome(Null, m, FALSE)
        ELSE Outcome(Arr(filteredCombos), CacheSet(m, cardName, Arr(filteredCombos), t), TRUE)

\* fetchComboData from the end of the request on
Resume(m, cardName, response, t) ==
    LET formattedName == formatCardName(cardName)
        combos == CardlistsOf(response.body)
        filteredCombos == FilterCombos(combos, cardName, formattedName)
        result == IF Len(filteredCombos) > 0 THEN Arr(filteredCombos) ELSE Null
    IN  IF response.kind = "network" \/ response.kind = "parse"
        THEN Outcome(Null, m, FALSE)
        ELSE IF response.kind = "403"
        THEN Outcome(Null, CacheSet(m, cardName, Null, t), TRUE)
        ELSE IF response.kind = "status"
        THEN Outcome(Null, m, FALSE)
        ELSE IF \E i \in 1..Len(combos) : CallbackThrows(combos[i], cardName, formattedName)
        THEN Outcome(Null, m, FALSE)
        ELSE Outcome(result, CacheSet(m, cardName, result, t), TRUE)

(***************************************************************************)
(* displayComboResults                                                     *)
(***************************************************************************)
\* 'https://edhrec.com'
Origin == <<"h", "t", "t", "p", "s", ":", "/", "/",
            "e", "d", "h", "r", "e", "c", ".", "c", "o", "m">>

\* a panel whose links are in the reverse of the list order
BuildPanelReversed(cardName, comboData) ==
    [id |-> "moxfield-combo-display",
     forCard |-> cardName,
     count |-> Len(comboData.items),
     entries |-> [i \in 1..Len(comboData.items) |->
                     LET combo == comboData.items[Len(comboData.items) + 1 - i]
                     IN  [href |-> Origin \o combo.href.s,
                          title |-> combo.header,
                          items |-> combo.results.items]]]

\* the div#moxfield-combo-display built for cardName and comboData: the
\* header "Combo For <cardName> (<length>)" and one <a> per combo
BuildPanel(cardName, comboData) ==
    [id |-> "moxfield-combo-display",
     forCard |-> cardName,
     count |-> Len(comboData.items),
     entries |-> [i \in 1..Len(comboData.items) |->
                     [href |-> Origin \o comboData.items[i].href.s,
                      title |-> comboData.items[i].header,
                      items |-> comboData.items[i].results.items]]]

\* a displayComboResults that does not remove the existing panel
DisplayKeepsOld(page, aside, cardName, comboData) ==
    IF ~Truthy(comboData) THEN page
    ELSE IF ~aside THEN page
    ELSE Append(page, BuildPanel(cardName, comboData))

\* displayComboResults(cardName, comboData): page is the sequence of the
\* elements with id moxfield-combo-display, in document order
displayComboResults(page, aside, cardName, comboData) ==
    LET removed == IF page # <<>> THEN Tail(page) ELSE page
    IN  IF ~Truthy(comboData) THEN removed
        ELSE IF ~aside THEN removed
        ELSE Append(removed, BuildPanel(cardName, comboData))

(***************************************************************************)
(* The script: init, setupAsideObserver, fetchCombo                        *)
(***************************************************************************)
\* a step of the history
Ev(type, name, request, response, value, displayed, panelBefore, overtaken) ==
    [type |-> type, name |-> name, request |-> request, response |-> response,
     value |-> value, displayed |-> displayed, panelBefore |-> panelBefore,
     overtaken |-> overtaken]

NoResponse == Response("none", Body(Undefined))

\* a step that is neither a fetchCombo run nor the end of a request
EvOther == Ev("other", Null, FALSE, NoResponse, Null, FALSE, Null, FALSE)

\* how a request ended, for the history: with a 403, with a success, or
\* with a failure that fetchComboData answers from its catch block or its
\* !response.ok branch
Ending(response) ==
    IF response.kind \in {"status", "network", "parse"} THEN "failed" ELSE response.kind

NoRuns == [r \in RawNames \X BOOLEAN \X BOOLEAN |-> 0]
NeverDone == [kind |-> "none", at |-> 0, value |-> Null, wrote |-> FALSE, clean |-> TRUE]

\* the script has not run: what the harnesses leave untouched
ScriptIdle ==
    /\ dom = Page(Null, <<>>, FALSE, FALSE)
    /\ panels = <<>>
    /\ inflight = NoRuns
    /\ watch = [init |-> FALSE, retry |-> 0, debounce |-> 0, armed |-> FALSE,
                handle |-> 0, connected |-> {}, live |-> {}, created |-> 0]
    /\ reqCount = [n \in RawNames |-> 0]
    /\ done = [n \in RawNames |-> NeverDone]
    /\ ev = EvOther

\* the script is loaded: let cache = new TTLCache(); init() has set its
\* 2000 ms timer
Init ==
    /\ input = <<>>
    /\ output = <<"?">>
    /\ ret = Null
    /\ lastOp = [op |-> "none", prev |-> [op |-> "none"]]
    /\ now = 0
    /\ cache = EmptyMap
    /\ dom \in Pages
    /\ panels = <<>>
    /\ inflight = NoRuns
    /\ watch = [init |-> TRUE, retry |-> 0, debounce |-> 0, armed |-> FALSE,
                handle |-> 0, connected |-> {}, live |-> {}, created |-> 0]
    /\ reqCount = [n \in RawNames |-> 0]
    /\ done = [n \in RawNames |-> NeverDone]
    /\ ev = EvOther

Requests == reqCount[NameAB] + reqCount[NameCd]

\* the bound leaves room for the run that would start now
CanRun ==
    LET name == getCurrentDisplayCardName(dom)
    IN  IF ~Truthy(name) THEN TRUE
        ELSE IF Lookup(cache, name.s, now).hit THEN TRUE
        ELSE Requests < MaxRequests

\* the suspended runs once a run that resolved name has started: those of
\* another card are overtaken, those of the same card or of any card when
\* name is null are not
Overtake(runs, name) ==
    [r \in RawNames \X BOOLEAN \X BOOLEAN |->
        IF r[3] = (name # Null /\ name # Str(r[1]))
        THEN runs[<<r[1], r[2], TRUE>>] + runs[<<r[1], r[2], FALSE>>]
        ELSE 0]

\* the card of the panel on the page, or null
PanelCard == IF panels = <<>> THEN Null ELSE Str(panels[1].forCard)

\* a fetchCombo that calls displayComboResults with null when no name resolves
FetchComboClearsPanel ==
    LET name == getCurrentDisplayCardName(dom)
    IN  IF ~Truthy(name)
        THEN /\ UNCHANGED <<cache, reqCount>>
             /\ panels' = displayComboResults(panels, dom.aside, <<>>, Null)
             /\ inflight' = Overtake(inflight, Null)
             /\ ev' = Ev("run", Null, FALSE, NoResponse, Null, FALSE, PanelCard, FALSE)
        ELSE LET look == Lookup(cache, name.s, now)
             IN  /\ cache' = look.map
                 /\ IF look.hit
                    THEN /\ panels' = displayComboResults(panels, dom.aside, name.s, look.value)
                         /\ inflight' = Overtake(inflight, name)
                         /\ UNCHANGED reqCount
                         /\ ev' = Ev("run", name, FALSE, NoResponse, look.value, TRUE,
                                     PanelCard, FALSE)
                    ELSE /\ inflight' = [Overtake(inflight, name) EXCEPT
                                            ![<<name.s, TRUE, FALSE>>] = @ + 1]
                         /\ reqCount' = [reqCount EXCEPT ![name.s] = @ + 1]
                         /\ UNCHANGED panels
                         /\ ev' = Ev("run", name, TRUE, NoResponse, Null, FALSE,
                                     PanelCard, FALSE)

\* fetchCombo(), up to the end of the run or to await fetch(url)
FetchCombo ==
    LET name == getCurrentDisplayCardName(dom)
    IN  IF ~Truthy(name)
        THEN /\ UNCHANGED <<cache, panels, reqCount>>
             /\ inflight' = Overtake(inflight, Null)
             /\ ev' = Ev("run", Null, FALSE, NoResponse, Null, FALSE, PanelCard, FALSE)
        ELSE LET look == Lookup(cache, name.s, now)
             IN  /\ cache' = look.map
                 /\ IF look.hit
                    THEN /\ panels' = displayComboResults(panels, dom.aside, name.s, look.value)
                         /\ inflight' = Overtake(inflight, name)
                         /\ UNCHANGED reqCount
                         /\ ev' = Ev("run", name, FALSE, NoResponse, look.value, TRUE,
                                     PanelCard, FALSE)
                    ELSE /\ inflight' = [Overtake(inflight, name) EXCEPT
                                            ![<<name.s, TRUE, FALSE>>] = @ + 1]
                         /\ reqCount' = [reqCount EXCEPT ![name.s] = @ + 1]
                         /\ UNCHANGED panels
                         /\ ev' = Ev("run", name, TRUE, NoResponse, Null, FALSE,
                                     PanelCard, FALSE)

\* an observer callback that does not call clearTimeout
ObserverCallbackNoClear(w) ==
    [w EXCEPT !.debounce = @ + 1, !.armed = TRUE]

\* the MutationObserver callback: clearTimeout(window.asideExtractTimeout),
\* then window.asideExtractTimeout = setTimeout(() => fetchCombo(), 100).
\* debounce counts the pending timers of this kind, armed says that the
\* timer named by window.asideExtractTimeout is one of them
ObserverCallback(w) ==
    [w EXCEPT !.debounce = (IF w.armed THEN @ - 1 ELSE @) + 1, !.armed = TRUE]

\* the watcher after the page has changed from one page to another: an
\* observer whose target has left the document sees nothing any more, and a
\* change inside the watched subtree calls the callback
AfterChange(w, from, to, inside) ==
    LET seen == IF inside THEN ObserverCallback(w) ELSE w
    IN  [seen EXCEPT !.live = IF to.wrapper /\ from.wrapper THEN @ ELSE {}]

\* a timer that fires and stays pending, as one set by setInterval would
TimerRepeats(w) == w

\* the timers after one of the pending debounce timers has fired: timers
\* of one delay fire in the order they were set, so the one named by
\* window.asideExtractTimeout, the last set, fires when no other is pending
TimerFired(w) ==
    IF w.armed /\ w.debounce = 1
    THEN [w EXCEPT !.debounce = 0, !.armed = FALSE]
    ELSE [w EXCEPT !.debounce = @ - 1]

\* a setupAsideObserver that leaves the stored observer connected
setupAsideObserverNoDisconnect(w, d) ==
    IF d.wrapper
    THEN [w EXCEPT !.created = @ + 1,
                   !.connected = @ \cup {w.created + 1},
                   !.live = @ \cup {w.created + 1},
                   !.handle = w.created + 1]
    ELSE [w EXCEPT !.retry = @ + 1]

\* a setupAsideObserver that gives up when the wrapper is not found
setupAsideObserverNoRetry(w, d) ==
    LET off == IF w.handle # 0
               THEN [w EXCEPT !.connected = @ \ {w.handle}, !.live = @ \ {w.handle}]
               ELSE w
    IN  IF d.wrapper
        THEN [off EXCEPT !.created = @ + 1,
                         !.connected = @ \cup {off.created + 1},
                         !.live = @ \cup {off.created + 1},
                         !.handle = off.created + 1]
        ELSE off

\* setupAsideObserver() on the page d
setupAsideObserver(w, d) ==
    LET off == IF w.handle # 0
               THEN [w EXCEPT !.connected = @ \ {w.handle}, !.live = @ \ {w.handle}]
               ELSE w
    IN  IF d.wrapper
        THEN [off EXCEPT !.created = @ + 1,
                         !.connected = @ \cup {off.created + 1},
                         !.live = @ \cup {off.created + 1},
                         !.handle = off.created + 1]
        ELSE [off EXCEPT !.retry = @ + 1]

\* the timer of init fires: fetchCombo(); setupAsideObserver()
InitFire ==
    /\ watch.init
    /\ CanRun
    /\ FetchCombo
    /\ watch' = setupAsideObserver([watch EXCEPT !.init = FALSE], dom)
    /\ UNCHANGED <<dom, done, now, normVars, harnessVars>>

\* the retry timer fires: setupAsideObserver()
RetryFire ==
    /\ watch.retry > 0
    /\ watch' = setupAsideObserver([watch EXCEPT !.retry = @ - 1], dom)
    /\ ev' = EvOther
    /\ UNCHANGED <<dom, panels, inflight, reqCount, done, cache, now, normVars, harnessVars>>

\* the host page changes to d; it keeps the injected panel or drops it with
\* the subtree it re-renders; a change inside the watched subtree calls the
\* MutationObserver callback: clearTimeout, then setTimeout(fetchCombo, 100)
PageChange(d, keep, inside) ==
    /\ ~keep => panels # <<>>
    /\ inside => dom.wrapper /\ watch.live # {}
    /\ dom' = d
    /\ panels' = IF keep THEN panels ELSE <<>>
    /\ watch' = AfterChange(watch, dom, d, inside)
    /\ ev' = EvOther
    /\ UNCHANGED <<inflight, reqCount, done, cache, now, normVars, harnessVars>>

\* a debounce timer fires, the oldest first: fetchCombo()
DebounceFire ==
    /\ watch.debounce > 0
    /\ CanRun
    /\ FetchCombo
    /\ watch' = TimerFired(watch)
    /\ UNCHANGED <<dom, done, now, normVars, harnessVars>>

\* a Respond that drops the answer of a run that another card has overtaken
RespondIfLatest(cardName, clean, overtaken, response) ==
    /\ inflight[<<cardName, clean, overtaken>>] > 0
    /\ LET out == Resume(cache, cardName, response, now)
           rest == [inflight EXCEPT ![<<cardName, clean, overtaken>>] = @ - 1]
       IN  /\ cache' = out.map
           /\ panels' = IF overtaken THEN panels
                      ELSE displayComboResults(panels, dom.aside, cardName, out.value)
           /\ inflight' = IF out.wrote
                          THEN [r \in RawNames \X BOOLEAN \X BOOLEAN |->
                                   IF r[1] # cardName THEN rest[r]
                                   ELSE IF r[2] THEN 0
                                   ELSE rest[<<r[1], TRUE, r[3]>>] + rest[<<r[1], FALSE, r[3]>>]]
                          ELSE rest
           /\ done' = [done EXCEPT ![cardName] =
                          [kind |-> Ending(response), at |-> now, value |-> out.value,
                           wrote |-> out.wrote, clean |-> clean]]
           /\ ev' = Ev("response", Str(cardName), FALSE, response, out.value, TRUE,
                       PanelCard, overtaken)
    /\ UNCHANGED <<dom, watch, reqCount, now, normVars, harnessVars>>

\* a Respond that renders under the name the page shows when the answer
\* arrives, not the name the run resolved
RespondShowsCurrentCard(cardName, clean, overtaken, response) ==
    /\ inflight[<<cardName, clean, overtaken>>] > 0
    /\ LET out == Resume(cache, cardName, response, now)
           rest == [inflight EXCEPT ![<<cardName, clean, overtaken>>] = @ - 1]
       IN  /\ cache' = out.map
           /\ panels' = displayComboResults(panels, dom.aside,
                         IF Truthy(getCurrentDisplayCardName(dom))
                         THEN getCurrentDisplayCardName(dom).s ELSE cardName,
                         out.value)
           /\ inflight' = IF out.wrote
                          THEN [r \in RawNames \X BOOLEAN \X BOOLEAN |->
                                   IF r[1] # cardName THEN rest[r]
                                   ELSE IF r[2] THEN 0
                                   ELSE rest[<<r[1], TRUE, r[3]>>] + rest[<<r[1], FALSE, r[3]>>]]
                          ELSE rest
           /\ done' = [done EXCEPT ![cardName] =
                          [kind |-> Ending(response), at |-> now, value |-> out.value,
                           wrote |-> out.wrote, clean |-> clean]]
           /\ ev' = Ev("response", Str(cardName), FALSE, response, out.value, TRUE,
                       PanelCard, overtaken)
    /\ UNCHANGED <<dom, watch, reqCount, now, normVars, harnessVars>>

\* the request of a run for cardName ends with response: fetchComboData
\* resumes and returns, then fetchCombo calls displayComboResults
Respond(cardName, clean, overtaken, response) ==
    /\ inflight[<<cardName, clean, overtaken>>] > 0
    /\ LET out == Resume(cache, cardName, response, now)
           rest == [inflight EXCEPT ![<<cardName, clean, overtaken>>] = @ - 1]
       IN  /\ cache' = out.map
           /\ panels' = displayComboResults(panels, dom.aside, cardName, out.value)
           /\ inflight' = IF out.wrote
                          THEN [r \in RawNames \X BOOLEAN \X BOOLEAN |->
                                   IF r[1] # cardName THEN rest[r]
                                   ELSE IF r[2] THEN 0
                                   ELSE rest[<<r[1], TRUE, r[3]>>] + rest[<<r[1], FALSE, r[3]>>]]
                          ELSE rest
           /\ done' = [done EXCEPT ![cardName] =
                          [kind |-> Ending(response), at |-> now, value |-> out.value,
                           wrote |-> out.wrote, clean |-> clean]]
           /\ ev' = Ev("response", Str(cardName), FALSE, response, out.value, TRUE,
                       PanelCard, overtaken)
    /\ UNCHANGED <<dom, watch, reqCount, now, normVars, harnessVars>>

\* time passes
Tick ==
    /\ now < MaxTime
    /\ now' = now + 1
    /\ ev' = EvOther
    /\ UNCHANGED <<dom, panels, inflight, watch, reqCount, done, cache, normVars, harnessVars>>

Next ==
    \/ InitFire
    \/ RetryFire
    \/ DebounceFire
    \/ \E d \in Pages, keep \in BOOLEAN, inside \in BOOLEAN : PageChange(d, keep, inside)
    \/ \E cardName \in RawNames, clean \in BOOLEAN, overtaken \in BOOLEAN,
          response \in Responses :
          Respond(cardName, clean, overtaken, response)
    \/ Tick

Spec == Init /\ [][Next]_vars

(***************************************************************************)
(* Normalizer harness: formatCardName applied to bounded inputs, and to    *)
(* its own output.                                                         *)
(***************************************************************************)
Alphabet == {"A", "b", "1", " ", "\t", "-", ","}

RECURSIVE StringsUpTo(_)
StringsUpTo(n) ==
    IF n = 0 THEN {<<>>}
    ELSE LET shorter == StringsUpTo(n - 1)
         IN  shorter \cup {Append(s, c) : s \in {t \in shorter : Len(t) = n - 1}, c \in Alphabet}

Birgi == <<"B","i","r","g","i",","," ","G","o","d"," ","o","f"," ",
           "S","t","o","r","y","t","e","l","l","i","n","g">>
BirgiSlug == <<"b","i","r","g","i","-","g","o","d","-","o","f","-",
               "s","t","o","r","y","t","e","l","l","i","n","g">>
Dockside == <<" "," ","D","o","c","k","s","i","d","e"," "," "," ",
              "E","x","t","o","r","t","i","o","n","i","s","t","!","!"," ">>
DocksideSlug == <<"d","o","c","k","s","i","d","e","-",
                  "e","x","t","o","r","t","i","o","n","i","s","t">>

NormInputs == StringsUpTo(MaxLen) \cup {Birgi, Dockside}

\* no output yet (no normalized string contains "?")
NotYet == <<"?">>

NoOp == [op |-> "none"]

HarnessIdle ==
    /\ ret = Null
    /\ lastOp = [op |-> "none", prev |-> NoOp]

InitNorm ==
    /\ input \in NormInputs
    /\ output = NotYet
    /\ now = 0
    /\ cache = EmptyMap
    /\ HarnessIdle
    /\ ScriptIdle

\* slug = formatCardName(name)
Format ==
    /\ output = NotYet
    /\ output' = formatCardName(input)
    /\ UNCHANGED <<input, now, cache, harnessVars, scriptVars>>

\* the slug is given to formatCardName again
Reformat ==
    /\ output # NotYet
    /\ output # input
    /\ input' = output
    /\ output' = formatCardName(output)
    /\ UNCHANGED <<now, cache, harnessVars, scriptVars>>

NextNorm == Format \/ Reformat

SpecNorm == InitNorm /\ [][NextNorm]_vars

(***************************************************************************)
(* Cache harness: TTLCache used on its own, with any key and value.        *)
(***************************************************************************)
CacheKeys == RawNames
CacheValues == {Null, Arr(<<>>), Arr(<<"x">>)}

InitCache ==
    /\ input = <<>>
    /\ output = NotYet
    /\ now = 0
    /\ cache = EmptyMap
    /\ HarnessIdle
    /\ ScriptIdle

\* cache.set(key, value)
CacheSetStep(key, value) ==
    /\ cache' = CacheSet(cache, key, value, now)
    /\ lastOp' = [op |-> "set", key |-> key, value |-> value, at |-> now,
                  before |-> cache, prev |-> [lastOp EXCEPT !.prev = NoOp]]
    /\ UNCHANGED <<ret, now, normVars, scriptVars>>

\* ret = cache.get(key)
CacheGetStep(key) ==
    /\ ret' = CacheGet(cache, key, now).value
    /\ cache' = CacheGet(cache, key, now).map
    /\ lastOp' = [op |-> "get", key |-> key, value |-> Null, at |-> now,
                  before |-> cache, prev |-> [lastOp EXCEPT !.prev = NoOp]]
    /\ UNCHANGED <<now, normVars, scriptVars>>

\* time passes
CacheTick ==
    /\ now < MaxTime
    /\ now' = now + 1
    /\ UNCHANGED <<cache, harnessVars, normVars, scriptVars>>

NextCache ==
    \/ \E key \in CacheKeys, value \in CacheValues : CacheSetStep(key, value)
    \/ \E key \in CacheKeys : CacheGetStep(key)
    \/ CacheTick

SpecCache == InitCache /\ [][NextCache]_vars

(***************************************************************************)
(* Resolver harness: extractDataHashFromImageSrc, findCardNameByHash and   *)
(* getCurrentDisplayCardName applied to bounded pages.                     *)
(***************************************************************************)
MaxParts == 4

\* the pieces image URLs are made of
SrcParts == {CardPrefix, <<"-">>, <<"k">>, <<"7", "-">>, <<"?">>}

\* the texts made of up to n pieces
RECURSIVE SrcsUpTo(_)
SrcsUpTo(n) ==
    IF n = 0 THEN {<<>>}
    ELSE LET shorter == SrcsUpTo(n - 1)
         IN  shorter \cup {s \o part : s \in shorter, part \in SrcParts}

\* https://assets.moxfield.net/cards/card-k7lVb-normal.webp?204767761
ExampleSrc ==
    <<
       "h", "t", "t", "p", "s", ":", "/", "/", "a", "s", "s", "e", "t",
       "s", ".", "m", "o", "x", "f", "i", "e", "l", "d", ".", "n", "e",
       "t", "/", "c", "a", "r", "d", "s", "/", "c", "a", "r", "d", "-",
       "k", "7", "l", "V", "b", "-", "n", "o", "r", "m", "a", "l", ".",
       "w", "e", "b", "p", "?", "2", "0", "4", "7", "6", "7", "7", "6",
       "1"
    >>
ExampleHash == <<"k", "7", "l", "V", "b">>

ResolveHashes == {<<"k">>, <<"7">>, ExampleHash}

ResolveRows ==
    {<<>>} \cup
    {[h \in {hash} |-> Row(phantom, link)] :
        hash \in {<<"k">>, ExampleHash},
        phantom \in {Null, Text(<<>>), Text(<<" ", "\n">>), Text(<<" ", "A", " ", "b", "\n">>)},
        link \in {Null, Text(<<" ">>), Text(<<"C", "-", "d", " ">>)}}

ResolvePages ==
    {Page(img, rows, FALSE, FALSE) :
        img \in {Null} \cup {Img(src) : src \in SrcsUpTo(MaxParts) \cup {ExampleSrc}},
        rows \in ResolveRows}

InitResolve ==
    /\ input = <<>>
    /\ output = NotYet
    /\ now = 0
    /\ cache = EmptyMap
    /\ HarnessIdle
    /\ dom \in ResolvePages
    /\ panels = <<>>
    /\ inflight = NoRuns
    /\ watch = [init |-> FALSE, retry |-> 0, debounce |-> 0, armed |-> FALSE,
                handle |-> 0, connected |-> {}, live |-> {}, created |-> 0]
    /\ reqCount = [n \in RawNames |-> 0]
    /\ done = [n \in RawNames |-> NeverDone]
    /\ ev = EvOther

\* extractDataHashFromImageSrc(imgElement.src)
ExtractStep ==
    /\ dom.img # Null
    /\ ret' = extractDataHashFromImageSrc(dom.img.src)
    /\ lastOp' = [op |-> "extract", hash |-> <<>>]
    /\ UNCHANGED <<input, output, now, cache, scriptVars>>

\* findCardNameByHash(hash)
FindStep(hash) ==
    /\ ret' = findCardNameByHash(dom, hash)
    /\ lastOp' = [op |-> "find", hash |-> hash]
    /\ UNCHANGED <<input, output, now, cache, scriptVars>>

\* getCurrentDisplayCardName()
ResolveStep ==
    /\ ret' = getCurrentDisplayCardName(dom)
    /\ lastOp' = [op |-> "resolve", hash |-> <<>>]
    /\ UNCHANGED <<input, output, now, cache, scriptVars>>

NextResolve ==
    \/ ExtractStep
    \/ \E hash \in ResolveHashes : FindStep(hash)
    \/ ResolveStep

SpecResolve == InitResolve /\ [][NextResolve]_vars

(***************************************************************************)
(* Watcher harness: init, setupAsideObserver and the observer callback on  *)
(* pages whose preview resolves to no card, where fetchCombo has nothing   *)
(* to fetch. lastOp keeps the burst of observed mutations.                 *)
(***************************************************************************)
MaxBurst == 3
MaxObservers == 3

\* pages without a preview image, with an image whose src has no hash, and
\* with an image whose hash no row carries; with and without the wrapper
WatchPages ==
    {Page(img, RowsOfDeck, aside, wrapper) :
        img \in {Null, Img(SrcNoHash), Img(SrcOther)},
        aside \in BOOLEAN, wrapper \in BOOLEAN}

NoBurst == [op |-> "none", burst |-> 0]

InitWatch ==
    /\ input = <<>>
    /\ output = NotYet
    /\ now = 0
    /\ cache = EmptyMap
    /\ ret = Null
    /\ lastOp = NoBurst
    /\ dom \in WatchPages
    /\ panels = <<>>
    /\ inflight = NoRuns
    /\ watch = [init |-> TRUE, retry |-> 0, debounce |-> 0, armed |-> FALSE,
                handle |-> 0, connected |-> {}, live |-> {}, created |-> 0]
    /\ reqCount = [n \in RawNames |-> 0]
    /\ done = [n \in RawNames |-> NeverDone]
    /\ ev = EvOther

\* the page changes to d; a change inside the watched subtree calls the
\* MutationObserver callback, and lastOp counts the mutations observed
\* since the last moment without a pending debounce timer
WatchChange(d, inside) ==
    /\ inside => dom.wrapper /\ watch.live # {}
    /\ dom' = d
    /\ watch' = AfterChange(watch, dom, d, inside)
    /\ lastOp' = IF ~inside THEN lastOp
                 ELSE IF watch.debounce = 0 THEN [op |-> "mutation", burst |-> 1]
                 ELSE [op |-> "mutation",
                       burst |-> IF lastOp.burst < MaxBurst THEN lastOp.burst + 1
                                 ELSE MaxBurst]
    /\ ev' = EvOther
    /\ UNCHANGED <<panels, inflight, reqCount, done, cache, now, ret, normVars>>

NextWatch ==
    \/ InitFire
    \/ RetryFire
    \/ DebounceFire
    \/ \E d \in WatchPages, inside \in BOOLEAN : WatchChange(d, inside)

SpecWatch == InitWatch /\ [][NextWatch]_vars

\* timers that are due fire: the event loop runs every callback whose
\* delay has passed
SpecWatchFair ==
    /\ SpecWatch
    /\ WF_vars(InitFire)
    /\ WF_vars(RetryFire)
    /\ WF_vars(DebounceFire)

\* the init timer of a second copy of the script fires on the same window:
\* fetchCombo(); setupAsideObserver()
SecondInit ==
    /\ ~watch.init
    /\ watch.created + watch.retry < MaxObservers
    /\ FetchCombo
    /\ watch' = setupAsideObserver(watch, dom)
    /\ UNCHANGED <<dom, done, now, normVars, harnessVars>>

NextSetup ==
    \/ InitFire
    \/ RetryFire
    \/ DebounceFire
    \/ SecondInit
    \/ \E d \in WatchPages, inside \in BOOLEAN : WatchChange(d, inside)

SpecSetup == InitWatch /\ [][NextSetup]_vars

(***************************************************************************)
(* Claims about fetchComboData                                             *)
(***************************************************************************)
\* the last step was fetchCombo starting for the card name n
RanFor(n) == ev.type = "run" /\ ev.name = Str(n)

\* the last step was the end of a request for the card name n
AnsweredFor(n) == ev.type = "response" /\ ev.name = Str(n)

\* some group of the body makes the filter callback throw for n: it has no
\* header and no card view equal to the slug of n
FilterThrowsOn(body, n) ==
    /\ body.cardlists # Undefined
    /\ \E i \in 1..Len(body.cardlists.items) :
          LET g == body.cardlists.items[i]
          IN  /\ g.header = Undefined
              /\ \/ g.cardviews = Undefined
                 \/ \A j \in 1..Len(g.cardviews.items) :
                       g.cardviews.items[j].sanitized.s # formatCardName(n)

\* a request for n that ended with response failed without an answer: a
\* status other than 403, or an exception in fetch, json() or the filter
IsTransient(response, n) ==
    \/ response.kind \in {"status", "network", "parse"}
    \/ response.kind = "ok" /\ FilterThrowsOn(response.body, n)

\* C1 (as stated): once a request for a name has ended with HTTP 403, a
\* fetchComboData for that name started within the ttl returns null and
\* issues no request.
C1_Cached403IssuesNoRequest ==
    \A n \in RawNames :
        (RanFor(n) /\ done[n].kind = "403" /\ now - done[n].at <= ttl)
            => ~ev.request /\ ev.value = Null

\* C2: when the last request for a name succeeded with a non-empty array,
\* a fetchComboData for that name started at an age up to the ttl returns
\* that array and issues no request, and one started at a greater age issues
\* a request.
C2_CachedCombosAreReturned ==
    \A n \in RawNames :
        (RanFor(n) /\ done[n].kind = "ok" /\ done[n].value # Null)
            => IF now - done[n].at <= ttl
               THEN ~ev.request /\ ev.value = done[n].value /\ Len(ev.value.items) > 0
               ELSE ev.request

\* a hit at an age of exactly the ttl
C2_Witness ==
    \E n \in RawNames :
        /\ RanFor(n)
        /\ done[n].kind = "ok"
        /\ done[n].value # Null
        /\ now - done[n].at = ttl
        /\ ~ev.request
        /\ ev.value = done[n].value

\* C5: the end of a request that failed without an answer returns null and
\* leaves the cache as it is, no cache.set being called; and after such an
\* end, when no other request for the name has written the cache while that
\* request was pending, the next fetchComboData for the name issues a
\* request.
C5_TransientFailuresAreNotCached ==
    [][\A n \in RawNames :
          /\ (ev'.type = "response" /\ ev'.name = Str(n) /\ IsTransient(ev'.response, n))
                => ev'.value = Null /\ cache' = cache /\ ~done'[n].wrote
          /\ (ev'.type = "run" /\ ev'.name = Str(n)
                /\ done[n].kind # "none" /\ ~done[n].wrote /\ done[n].clean)
                => ev'.request]_vars

\* a request is issued right after a failed one, with the other name cached
C5_Witness ==
    \E n \in RawNames :
        /\ RanFor(n)
        /\ ev.request
        /\ done[n].kind = "failed"
        /\ done[n].clean
        /\ reqCount[n] = 2

\* the groups of a body
GroupsOf(body) ==
    IF body.cardlists = Undefined THEN <<>> ELSE body.cardlists.items

\* (a) some card view of group g has the slug of n, or (b) the header of g
\* contains n
GroupIsFor(g, n) ==
    \/ /\ g.cardviews # Undefined
       /\ \E j \in 1..Len(g.cardviews.items) :
             g.cardviews.items[j].sanitized.s = formatCardName(n)
    \/ /\ g.header # Undefined
       /\ \E i \in 1..Len(g.header.s) :
             /\ i + Len(n) - 1 <= Len(g.header.s)
             /\ \A j \in 1..Len(n) : g.header.s[i + j - 1] = n[j]

\* the positions of the groups of a body that are for n
KeptIn(body, n) == {i \in 1..Len(GroupsOf(body)) : GroupIsFor(GroupsOf(body)[i], n)}

\* the j-th smallest element of a set of numbers
Nth(S, j) == CHOOSE i \in S : Cardinality({k \in S : k < i}) = j - 1

\* C6: every value in the cache is null or a non-empty array of combo
\* records; a success whose filtered array is empty is cached and returned
\* as null.
C6_CacheHoldsNullOrNonEmpty ==
    /\ \A k \in DOMAIN cache :
          \/ cache[k].value = Null
          \/ /\ cache[k].value.t = "array"
             /\ Len(cache[k].value.items) >= 1
             /\ \A i \in 1..Len(cache[k].value.items) :
                   DOMAIN cache[k].value.items[i] = {"header", "href", "results"}
    /\ \A n \in RawNames :
          (AnsweredFor(n) /\ ev.response.kind = "ok"
             /\ ~FilterThrowsOn(ev.response.body, n) /\ KeptIn(ev.response.body, n) = {})
              => /\ ev.value = Null
                 /\ n \in DOMAIN cache
                 /\ cache[n] = [value |-> Null, timestamp |-> now]

\* a success with groups, none of them for the card, was cached as null
C6_Witness ==
    /\ AnsweredFor(NameAB)
    /\ ev.response.kind = "ok"
    /\ ev.response.body.cardlists # Undefined
    /\ ev.value = Null
    /\ NameAB \in DOMAIN cache
    /\ cache[NameAB].value = Null

C8_OnePanelReplaced ==
    /\ Len(panels) <= 1
    /\ \A i \in 1..Len(panels) : panels[i].id = "moxfield-combo-display"
    /\ ev.displayed =>
          /\ ev.value = Null => panels = <<>>
          /\ (ev.value # Null /\ dom.aside) =>
                /\ Len(panels) = 1
                /\ panels[1].forCard = ev.name.s
                /\ panels[1].count = Len(ev.value.items)
                /\ Len(panels[1].entries) = Len(ev.value.items)
          /\ displayComboResults(panels, dom.aside, ev.name.s, ev.value) = panels

\* a panel was on the page and the call put the panel of another card
C8_Witness ==
    /\ ev.displayed
    /\ ev.panelBefore # Null
    /\ ev.value # Null
    /\ ev.name = Str(NameCd)
    /\ Len(panels) = 1
    /\ panels[1].forCard = NameCd

\* C9 (as stated): after a fetchCombo run in which the card name did not
\* resolve, or the request ended with 403, another non-2xx status or an
\* exception, the page holds no injected panel.
C9_ErrorsShowNothing ==
    (\/ ev.type = "run" /\ ev.name = Null
     \/ \E n \in RawNames :
           AnsweredFor(n) /\ (ev.response.kind = "403" \/ IsTransient(ev.response, n)))
        => panels = <<>>

\* C11: right after displayComboResults(name, combos) was called with a
\* non-empty array and the anchor aside on the page, the page holds one
\* panel whose header shows name and the length of combos, with exactly one
\* link per combo, in the order of combos, the i-th link having the href
\* "https://edhrec.com" followed by the href of the i-th combo, the header of
\* that combo as its title and the results of that combo as its list.
C11_PanelShowsEveryComboInOrder ==
    (ev.displayed /\ ev.value # Null /\ dom.aside) =>
        /\ Len(panels) = 1
        /\ panels[1].forCard = ev.name.s
        /\ panels[1].count = Len(ev.value.items)
        /\ DOMAIN panels[1].entries = 1..Len(ev.value.items)
        /\ \A i \in 1..Len(ev.value.items) :
              /\ panels[1].entries[i].href =
                    <<"h", "t", "t", "p", "s", ":", "/", "/",
                      "e", "d", "h", "r", "e", "c", ".", "c", "o", "m">>
                        \o ev.value.items[i].href.s
              /\ panels[1].entries[i].title = ev.value.items[i].header
              /\ panels[1].entries[i].items = ev.value.items[i].results.items

\* a panel of two links was rendered from the answer to a request: the
\* first link goes to /2 and the second to /1
C11_Witness ==
    /\ ev.type = "response"
    /\ ev.displayed
    /\ dom.aside
    /\ ev.value # Null
    /\ Len(ev.value.items) = 2
    /\ Len(panels) = 1
    /\ panels[1].count = 2
    /\ panels[1].entries[1].href = Origin \o <<"/", "2">>
    /\ panels[1].entries[2].href = Origin \o <<"/", "1">>

(***************************************************************************)
(* Claims about overlapping runs                                           *)
(***************************************************************************)
\* C13 (as stated), for the window that begins when the script is loaded:
\* as long as less than one ttl has passed, at most one HTTP request has
\* been issued for each raw card name, whatever the order of the runs and
\* of the answers.
C13_OneRequestPerNameAndWindow ==
    \A n \in RawNames : now < ttl => reqCount[n] <= 1

\* C14: the answer to a request is rendered whenever it arrives: when a
\* run for one card has been overtaken by a run for another card, the end
\* of its request with combos still puts the panel of its own card on the
\* page, in place of the panel that was there, whatever card the page shows
\* by then.
C14_OvertakenAnswerIsRendered ==
    \A n \in RawNames :
        (AnsweredFor(n) /\ ev.overtaken /\ ev.value # Null /\ dom.aside)
            => /\ Len(panels) = 1
               /\ panels[1].forCard = n
               /\ panels[1].count = Len(ev.value.items)

\* a run for "A b" started, then a run for "C-d" started and put its panel
\* on the page, then the answer for "A b" arrived: the page shows the card
\* "C-d" and the panel of "A b"
C14_Witness ==
    /\ AnsweredFor(NameAB)
    /\ ev.overtaken
    /\ ev.panelBefore = Str(NameCd)
    /\ done[NameCd].kind = "ok"
    /\ getCurrentDisplayCardName(dom) = Str(NameCd)
    /\ \A r \in RawNames \X BOOLEAN \X BOOLEAN : inflight[r] = 0
    /\ Len(panels) = 1
    /\ panels[1].forCard = NameAB

\* every group of the bodies of the model
GroupsOfBodies ==
    UNION {{GroupsOf(b)[i] : i \in 1..Len(GroupsOf(b))} : b \in Bodies}

\* C19: every panel on the page shows a card name and, as its entries, only
\* combos of groups that are for that card, each entry with the href, the
\* header and the results of one group; and a panel on the page right after
\* a run has rendered carries the name that run resolved and as many
\* entries as the array fetchComboData returned to that run.
C19_PanelOfOneRun ==
    /\ \A p \in 1..Len(panels) :
          /\ panels[p].forCard \in RawNames
          /\ panels[p].count = Len(panels[p].entries)
          /\ \A i \in 1..Len(panels[p].entries) :
                \E g \in GroupsOfBodies :
                    /\ GroupIsFor(g, panels[p].forCard)
                    /\ panels[p].entries[i] =
                          [href |-> Origin \o g.href.s,
                           title |-> g.header,
                           items |-> IF g.results = Undefined THEN <<>> ELSE g.results.items]
    /\ \A n \in RawNames :
          ((AnsweredFor(n) \/ (RanFor(n) /\ ev.displayed)) /\ panels # <<>>)
              => /\ panels[1].forCard = n
                 /\ ev.value # Null
                 /\ Len(panels[1].entries) = Len(ev.value.items)

\* the answer of an overtaken run for "C-d" is on the page under the name
\* "C-d" while the page shows "A b"
C19_Witness ==
    /\ AnsweredFor(NameCd)
    /\ ev.overtaken
    /\ getCurrentDisplayCardName(dom) = Str(NameAB)
    /\ Len(panels) = 1
    /\ panels[1].forCard = NameCd
    /\ panels[1].entries[1].href = Origin \o <<"/", "3">>

\* C20: a fetchCombo run in which no card name resolves issues no request,
\* leaves the cache as it is, expired entries included, calls no
\* displayComboResults and leaves the panels and the suspended runs as they
\* are.
C20_AbsentNameChangesNothing ==
    [][(ev'.type = "run" /\ ev'.name = Null) =>
          /\ ~ev'.request
          /\ ~ev'.displayed
          /\ cache' = cache
          /\ panels' = panels
          /\ reqCount' = reqCount
          /\ done' = done
          /\ \A n \in RawNames, clean \in BOOLEAN :
                inflight'[<<n, clean, TRUE>>] + inflight'[<<n, clean, FALSE>>] =
                    inflight[<<n, clean, TRUE>>] + inflight[<<n, clean, FALSE>>]]_vars

\* a run without a name has left a panel on the page and an expired entry
\* in the cache
C20_Witness ==
    /\ ev.type = "run"
    /\ ev.name = Null
    /\ panels # <<>>
    /\ ev.panelBefore = Str(panels[1].forCard)
    /\ \E k \in DOMAIN cache : now - cache[k].timestamp > ttl

(***************************************************************************)
(* Claims about the cache                                                  *)
(***************************************************************************)
\* C3: set(k,v) immediately followed by get(k) returns v, null included;
\* get(k) returns null (absent) when k is not in the map; a get at an age
\* above the ttl returns null and deletes the entry of k only; a get at an
\* age up to the ttl returns the stored value and leaves the map alone; the
\* age counts from the last set of k.
C3_CacheRoundTripAndExpiry ==
    /\ lastOp.op = "set" =>
          /\ lastOp.key \in DOMAIN cache
          /\ cache[lastOp.key] = [value |-> lastOp.value, timestamp |-> lastOp.at]
          /\ \A k \in CacheKeys \ {lastOp.key} :
                IF k \in DOMAIN lastOp.before
                THEN k \in DOMAIN cache /\ cache[k] = lastOp.before[k]
                ELSE k \notin DOMAIN cache
    /\ lastOp.op = "get" =>
          LET k == lastOp.key
              old == lastOp.before
          IN  /\ (lastOp.prev.op = "set" /\ lastOp.prev.key = k /\ lastOp.prev.at = lastOp.at)
                    => ret = lastOp.prev.value /\ cache = old
              /\ k \notin DOMAIN old => ret = Null /\ cache = old
              /\ (k \in DOMAIN old /\ lastOp.at - old[k].timestamp > ttl)
                    => /\ ret = Null
                       /\ DOMAIN cache = DOMAIN old \ {k}
                       /\ \A j \in DOMAIN cache : cache[j] = old[j]
              /\ (k \in DOMAIN old /\ lastOp.at - old[k].timestamp <= ttl)
                    => ret = old[k].value /\ cache = old

\* a get at an age of exactly the ttl has returned the stored array
C3_Witness ==
    /\ lastOp.op = "get"
    /\ lastOp.key \in DOMAIN lastOp.before
    /\ lastOp.at - lastOp.before[lastOp.key].timestamp = ttl
    /\ ret = Arr(<<"x">>)
    /\ lastOp.key \in DOMAIN cache

(***************************************************************************)
(* Claims about the normalizer                                             *)
(***************************************************************************)
RECURSIVE WithoutHyphens(_)
WithoutHyphens(s) ==
    IF s = <<>> THEN <<>>
    ELSE IF Head(s) = "-" THEN WithoutHyphens(Tail(s))
         ELSE <<Head(s)>> \o WithoutHyphens(Tail(s))

\* the letters and digits of s after lower-casing, in order
RECURSIVE AlnumOf(_)
AlnumOf(s) ==
    IF s = <<>> THEN <<>>
    ELSE LET c == LowerChar(Head(s))
         IN  IF IsLowerLetter(c) \/ IsDigit(c)
             THEN <<c>> \o AlnumOf(Tail(s))
             ELSE AlnumOf(Tail(s))

\* C4 (as stated): formatCardName is idempotent, formatCardName of a slug
\* is that slug.
C4_Idempotent ==
    output # NotYet => formatCardName(output) = output

\* C4 (amended): a second formatCardName deletes the hyphens the first one
\* inserted, and changes nothing else; it returns the slug unchanged exactly
\* when the slug has no hyphen.
C4_SecondPassDropsHyphens ==
    output # NotYet =>
        /\ formatCardName(output) = WithoutHyphens(output)
        /\ (formatCardName(output) = output) <=> (\A i \in 1..Len(output) : output[i] # "-")

C4_Witness ==
    /\ input = <<"b", "-", "b">>
    /\ output = <<"b", "b">>

\* C10: the slug holds only a-z, 0-9 and '-', neither starts nor ends with a
\* hyphen, has no two adjacent hyphens, keeps the lower-cased letters and
\* digits of the name in order, and the two names of the specification give
\* the slugs it states.
C10_SlugShape ==
    output # NotYet =>
        /\ \A i \in 1..Len(output) :
              IsLowerLetter(output[i]) \/ IsDigit(output[i]) \/ output[i] = "-"
        /\ output # <<>> => output[1] # "-" /\ output[Len(output)] # "-"
        /\ \A i \in 1..(Len(output) - 1) : ~(output[i] = "-" /\ output[i + 1] = "-")
        /\ WithoutHyphens(output) = AlnumOf(input)
        /\ input = Birgi => output = BirgiSlug
        /\ input = Dockside => output = DocksideSlug

C10_Witness ==
    /\ input = <<" ", "A", "\t", "b">>
    /\ output = <<"a", "-", "b">>


(***************************************************************************)
(* Claims about the card name resolution                                   *)
(***************************************************************************)
\* the text "/card-" is at position i of src
PrefixAt(src, i) ==
    /\ i + 5 <= Len(src)
    /\ \A k \in 0..5 : src[i + k] = <<"/", "c", "a", "r", "d", "-">>[k + 1]

\* the text of src from position from up to the next hyphen, or null when
\* no hyphen follows
TokenFrom(src, from) ==
    LET dashes == {j \in from..Len(src) : src[j] = "-"}
    IN  IF dashes = {} THEN Null
        ELSE LET next == CHOOSE j \in dashes : \A k \in dashes : j <= k
             IN  Str(SubSeq(src, from, next - 1))

\* the token between the first "/card-" of src and the next hyphen; null
\* when src has no "/card-", no hyphen after it, or nothing between them
TokenOfFirstPrefix(src) ==
    LET at == {i \in 1..Len(src) : PrefixAt(src, i)}
    IN  IF at = {} THEN Null
        ELSE LET first == CHOOSE i \in at : \A k \in at : i <= k
                 token == TokenFrom(src, first + 6)
             IN  IF token = Null THEN Null
                 ELSE IF token.s = <<>> THEN Null ELSE token

\* the same, for the first "/card-" of src that is not directly followed by
\* a hyphen
TokenOfFirstFilledPrefix(src) ==
    LET at == {i \in 1..Len(src) :
                 PrefixAt(src, i) /\ i + 6 <= Len(src) /\ src[i + 6] # "-"}
    IN  IF at = {} THEN Null
        ELSE LET first == CHOOSE i \in at : \A k \in at : i <= k
             IN  TokenFrom(src, first + 6)

\* the text of an element that may be null, trimmed
TextOrEmpty(el) == IF el = Null THEN <<>> ELSE trim(el.s)

\* findCardNameByHash returned the trimmed text of the dedicated name
\* element when it is not empty, else the trimmed text of the table-row link
\* when it is not empty, else null; null too without an element of that hash
NameByFallback ==
    lastOp.op = "find" =>
        IF lastOp.hash \notin DOMAIN dom.rows THEN ret = Null
        ELSE LET byName == TextOrEmpty(dom.rows[lastOp.hash].phantom)
                 byLink == TextOrEmpty(dom.rows[lastOp.hash].link)
             IN  /\ byName # <<>> => ret = Str(byName)
                 /\ (byName = <<>> /\ byLink # <<>>) => ret = Str(byLink)
                 /\ (byName = <<>> /\ byLink = <<>>) => ret = Null
                 /\ ret # Null =>
                       ~IsSpace(ret.s[1]) /\ ~IsSpace(ret.s[Len(ret.s)])

\* getCurrentDisplayCardName returned null when the image, its src, the
\* hash or the element of that hash is missing, and else what
\* findCardNameByHash gives for the hash of the image
AbsentWhenMissing ==
    lastOp.op = "resolve" =>
        IF dom.img = Null THEN ret = Null
        ELSE IF dom.img.src = <<>> THEN ret = Null
        ELSE LET hash == TokenOfFirstFilledPrefix(dom.img.src)
             IN  IF hash = Null THEN ret = Null
                 ELSE IF hash.s \notin DOMAIN dom.rows THEN ret = Null
                 ELSE ret = findCardNameByHash(dom, hash.s)

\* C12 (as stated): extractDataHashFromImageSrc returns the token between
\* the first "/card-" of the URL and the next hyphen, and null without such
\* a token; findCardNameByHash returns the trimmed name text, else the
\* trimmed link text, else null; getCurrentDisplayCardName returns null when
\* the image, the hash or the hashed element is missing.
C12_HashFollowsFirstPrefix ==
    /\ lastOp.op = "extract" => ret = TokenOfFirstPrefix(dom.img.src)
    /\ NameByFallback
    /\ AbsentWhenMissing

\* C12 (amended): as C12, the token being the one that follows the first
\* "/card-" not directly followed by a hyphen; the example URL gives k7lVb.
C12_HashFollowsFirstFilledPrefix ==
    /\ lastOp.op = "extract" =>
          /\ ret = TokenOfFirstFilledPrefix(dom.img.src)
          /\ dom.img.src = ExampleSrc => ret = Str(<<"k", "7", "l", "V", "b">>)
    /\ NameByFallback
    /\ AbsentWhenMissing

\* the name element holds only white space and the name comes from the
\* link, for the hash of the example URL
C12_Witness ==
    /\ lastOp.op = "resolve"
    /\ dom.img # Null
    /\ dom.img.src = ExampleSrc
    /\ ExampleHash \in DOMAIN dom.rows
    /\ dom.rows[ExampleHash].phantom = Text(<<" ", "\n">>)
    /\ ret = Str(<<"C", "-", "d">>)


(***************************************************************************)
(* Claims about the change watcher                                         *)
(***************************************************************************)
\* C15: at most one debounce timer is pending, and it is the one named by
\* window.asideExtractTimeout; every observed mutation leaves exactly that
\* one timer pending, newly set; a run started by the debounce timer starts
\* from the one pending timer, set by the last mutation of the burst, and
\* leaves none, so that a burst of any length starts one run; and only an
\* observed mutation sets a timer.
C15_OneDebounceTimer ==
    /\ [](/\ watch.debounce \in {0, 1}
          /\ watch.armed <=> watch.debounce = 1
          /\ ev.type = "run" => watch.debounce = 0)
    /\ [][/\ lastOp' # lastOp => watch'.debounce = 1 /\ watch'.armed
          /\ (ev'.type = "run" /\ ~watch.init) =>
                /\ watch.debounce = 1
                /\ watch.armed
                /\ watch'.debounce = 0
          /\ watch'.debounce > watch.debounce => lastOp'.op = "mutation"]_vars

\* a run has started after a burst of two mutations or more, and no timer
\* is left
C15_Witness ==
    /\ ev.type = "run"
    /\ lastOp.op = "mutation"
    /\ lastOp.burst >= 2
    /\ watch.debounce = 0
    /\ ~watch.armed

\* C16: when timers fire, a pending debounce timer leads to a fetchCombo
\* run after which no debounce timer is pending and the observer is still
\* connected.
C16_MutationLeadsToRun ==
    (watch.debounce = 1) ~>
        (ev.type = "run" /\ watch.debounce = 0 /\ watch.handle \in watch.connected)

\* the run that followed a single mutation has started, the wrapper still
\* on the page
C16_Witness ==
    /\ ev.type = "run"
    /\ lastOp = [op |-> "mutation", burst |-> 1]
    /\ watch.debounce = 0
    /\ watch.handle \in watch.connected
    /\ watch.live # {}
    /\ dom.wrapper

\* C17: until an observer is installed, one retry timer is pending after
\* each attempt of setupAsideObserver and no observer exists; an attempt
\* made while div.deckview-image-wrapper is missing installs nothing and
\* leaves exactly one retry pending; an observer is installed only with the
\* wrapper on the page and leaves no retry pending; once an observer is
\* installed, it stays and no retry is pending ever after; and when timers
\* fire and the wrapper is on the page from some moment on, an observer is
\* eventually installed.
C17_RetryUntilWatching ==
    /\ [](/\ watch.init => watch.created = 0 /\ watch.retry = 0
          /\ (~watch.init /\ watch.created = 0) =>
                watch.retry = 1 /\ watch.handle = 0 /\ watch.connected = {}
          /\ watch.created > 0 => watch.retry = 0 /\ watch.handle # 0)
    /\ [][/\ (~watch'.init /\ watch.created = 0 /\ ~dom.wrapper) =>
                watch'.created = 0 /\ watch'.retry = 1 /\ watch'.connected = {}
          /\ watch'.created > watch.created =>
                dom.wrapper /\ watch'.retry = 0 /\ watch'.handle \in watch'.connected
          /\ watch.handle # 0 => watch'.handle = watch.handle /\ watch'.retry = 0]_vars
    /\ (<>[](dom.wrapper)) => <>(watch.handle # 0)

\* the attempt of init has failed: no observer, one retry pending, the
\* wrapper still missing
C17_Witness ==
    /\ ~watch.init
    /\ ~dom.wrapper
    /\ watch.created = 0
    /\ watch.retry = 1
    /\ watch.connected = {}

\* C18: at most one observer is connected, none but the one stored in
\* window.asideObserver, and window.asideObserver is the observer installed
\* last: a setupAsideObserver that installs an observer has disconnected
\* the one stored before.
C18_SingleObserver ==
    /\ Cardinality(watch.connected) <= 1
    /\ watch.connected \subseteq {watch.handle}
    /\ watch.handle = watch.created

\* a second observer is installed and the first is disconnected
C18_Witness ==
    /\ watch.created = 2
    /\ watch.handle = 2
    /\ watch.connected = {2}

====
